---- MODULE Spec2Model ----
(***************************************************************************)
(* SnapMark payment backend (src/index.js): the in-memory entitlement      *)
(* store (proUsers, global.customerMap) and the HTTP handlers that read    *)
(* and write it.  Node runs each handler to completion up to its next      *)
(* await, so one action is one synchronous segment of a handler.           *)
(***************************************************************************)
EXTENDS Integers, Sequences, FiniteSets

\* ---------------------------------------------------------------- bounds
MaxUsers == 2
MaxCustomers == 2
MaxInFlight == 2

\* A missing / falsy JavaScript value (undefined, null, "") is 0.
Absent == 0
UserIds == 1..MaxUsers
CustomerRefs == 1..MaxCustomers
OptUserIds == UserIds \cup {Absent}
OptCustomerRefs == CustomerRefs \cup {Absent}
Slots == 1..MaxInFlight

Checkout == "checkout.session.completed"
SubDeleted == "customer.subscription.deleted"
OtherType == "invoice.paid"
EventTypes == {Checkout, SubDeleted, OtherType}

VARIABLES
    proUsers,        \* const proUsers = new Set()
    customerMap,     \* global.customerMap = new Map(), in insertion order
    emailConfigured, \* RESEND_API_KEY and ADMIN_EMAIL are both set
    reqs,            \* the requests being served, one per connection slot
    everPaid         \* userIds carried by a processed verified checkout event

vars == <<proUsers, customerMap, emailConfigured, reqs, everPaid>>

\* ------------------------------------------------- Map (insertion ordered)
MapKeys(m) == {m[k][1] : k \in 1..Len(m)}

MapHas(m, u) == u \in MapKeys(m)

\* Map.prototype.get: the value stored under u, undefined when there is none
MapGet(m, u) ==
    IF MapHas(m, u)
    THEN (m[CHOOSE k \in 1..Len(m) : m[k][1] = u])[2]
    ELSE Absent

\* a set that keeps the value of an existing key
MapSetKeepsFirst(m, u, c) ==
    IF MapHas(m, u) THEN m ELSE Append(m, <<u, c>>)

\* Map.prototype.set: an existing key keeps its position, a new one is appended
MapSet(m, u, c) ==
    IF MapHas(m, u)
    THEN [k \in 1..Len(m) |-> IF m[k][1] = u THEN <<u, c>> ELSE m[k]]
    ELSE Append(m, <<u, c>>)

\* ------------------------------------------------------------ store steps
\* GET /check-pro/:userId
isPro(pro, u) == u \in pro

\* proUsers.add(userId); global.customerMap.set(userId, customerId)
GrantPro(pro, u) == pro \cup {u}

\* a guard that tests the customer only
CheckoutActsOnCustomerOnly(u, c) == c # Absent

\* a guard that tests the userId only
CheckoutActsOnUserOnly(u, c) == u # Absent

\* whether the checkout branch acts: if (userId && customerId)
CheckoutActs(u, c) == u # Absent /\ c # Absent

\* a loop whose test assigns (cId = customerId): the first entry always matches
FirstEntryForAssigns(m, c) == IF Len(m) > 0 /\ c # Absent THEN 1 ELSE 0

\* the for..of loop over customerMap.entries(): first entry whose value is c
FirstEntryFor(m, c) ==
    IF \E k \in 1..Len(m) : m[k][2] = c
    THEN CHOOSE k \in 1..Len(m) :
            /\ m[k][2] = c
            /\ \A j \in 1..(k - 1) : m[j][2] # c
    ELSE 0

\* a revocation that downgrades every known user when no entry matches
RevokeByCustomerAllOnMiss(pro, m, c) ==
    IF FirstEntryFor(m, c) = 0
    THEN pro \ MapKeys(m)
    ELSE pro \ {m[FirstEntryFor(m, c)][1]}

\* a loop without the break: every user stored with c is downgraded
RevokeByCustomerNoBreak(pro, m, c) ==
    pro \ {m[k][1] : k \in {j \in 1..Len(m) : m[j][2] = c}}

\* customer.subscription.deleted: delete the first matching user, then break
RevokeByCustomer(pro, m, c) ==
    IF FirstEntryFor(m, c) = 0
    THEN pro
    ELSE pro \ {m[FirstEntryFor(m, c)][1]}

\* a cancel that adds the user instead of deleting it
CancelProAdds(pro, u) == pro \cup {u}

\* a cancel that deletes under the wrong key and so deletes nothing
CancelProWrongKey(pro, u) == pro

\* proUsers.delete(userId)
CancelPro(pro, u) == pro \ {u}

\* --------------------------------------------------------------- requests
Idle == [kind |-> "none", pc |-> "idle", evType |-> "", userId |-> Absent,
         customerId |-> Absent, notify |-> "none", err |-> FALSE,
         status |-> 0, body |-> ""]

Respond(r, st, b) == [r EXCEPT !.pc = "done", !.status = st, !.body = b]

\* sendNotification up to its await: returns at once when email is not
\* configured, otherwise resend.emails.send is in flight
StartNotification(r) ==
    IF emailConfigured
    THEN [r EXCEPT !.pc = "sending", !.notify = "sending"]
    ELSE [r EXCEPT !.pc = "resume", !.notify = "skipped"]

TypeOK ==
    /\ proUsers \subseteq UserIds
    /\ customerMap \in Seq(UserIds \X CustomerRefs)
    /\ Len(customerMap) <= MaxUsers
    /\ Cardinality(MapKeys(customerMap)) = Len(customerMap)
    /\ emailConfigured \in BOOLEAN
    /\ everPaid \subseteq UserIds
    /\ \A i \in Slots :
        /\ reqs[i].kind \in {"none", "root", "check", "create-checkout", "webhook",
                            "cancel", "portal"}
        /\ reqs[i].pc \in {"idle", "sending", "resume", "session", "search",
                          "portal1", "portal2", "list", "portal3", "done"}
        /\ reqs[i].err \in BOOLEAN
        /\ reqs[i].userId \in OptUserIds
        /\ reqs[i].customerId \in OptCustomerRefs

Init ==
    /\ proUsers = {}
    /\ customerMap = << >>
    /\ emailConfigured \in BOOLEAN
    /\ reqs = [i \in Slots |-> Idle]
    /\ everPaid = {}

\* a portal handler without the in-memory lookup
PortalMethod2SkipsMap(r, m) == [r EXCEPT !.pc = "list"]

\* /create-portal-session, method 2: the in-memory map decides whether a
\* portal session is created for the stored customer or the email list is tried
PortalMethod2(r, m) ==
    IF MapGet(m, r.userId) # Absent
    THEN [r EXCEPT !.pc = "portal2"]
    ELSE [r EXCEPT !.pc = "list"]

\* ---------------------------------------------------------------- actions
\* GET /
Root(i) ==
    /\ reqs[i].pc = "idle"
    /\ reqs' = [reqs EXCEPT ![i] = Respond([Idle EXCEPT !.kind = "root"], 200, "running")]
    /\ UNCHANGED <<proUsers, customerMap, emailConfigured, everPaid>>

\* POST /create-checkout up to await stripe.checkout.sessions.create
CreateCheckout(i, u) ==
    /\ reqs[i].pc = "idle"
    /\ LET r == [Idle EXCEPT !.kind = "create-checkout", !.userId = u]
       IN reqs' = [reqs EXCEPT ![i] =
                     IF u = Absent
                     THEN Respond(r, 400, "User ID required")
                     ELSE [r EXCEPT !.pc = "session"]]
    /\ UNCHANGED <<proUsers, customerMap, emailConfigured, everPaid>>

\* stripe.checkout.sessions.create settles: {url}, or the catch answers 500
CheckoutSessionSettles(i, ok) ==
    /\ reqs[i].pc = "session"
    /\ reqs' = [reqs EXCEPT ![i] =
                  IF ok
                  THEN Respond(reqs[i], 200, "url")
                  ELSE Respond([reqs[i] EXCEPT !.err = TRUE], 500, "error")]
    /\ UNCHANGED <<proUsers, customerMap, emailConfigured, everPaid>>

\* POST /create-portal-session up to await stripe.customers.search
CreatePortalSession(i, u) ==
    /\ reqs[i].pc = "idle"
    /\ LET r == [Idle EXCEPT !.kind = "portal", !.userId = u]
       IN reqs' = [reqs EXCEPT ![i] =
                     IF u = Absent
                     THEN Respond(r, 400, "User ID required")
                     ELSE [r EXCEPT !.pc = "search"]]
    /\ UNCHANGED <<proUsers, customerMap, emailConfigured, everPaid>>

\* a search that caches the customer it found in the in-memory map
SearchSettlesCachesCustomer(i, res) ==
    /\ reqs[i].pc = "search"
    /\ reqs' = [reqs EXCEPT ![i] =
                  CASE res = "found" -> [reqs[i] EXCEPT !.pc = "portal1"]
                    [] res = "none" -> PortalMethod2(reqs[i], customerMap)
                    [] OTHER -> PortalMethod2([reqs[i] EXCEPT !.err = TRUE], customerMap)]
    /\ customerMap' = IF res = "found" THEN MapSet(customerMap, reqs[i].userId, 1)
                      ELSE customerMap
    /\ UNCHANGED <<proUsers, emailConfigured, everPaid>>

\* method 1, stripe.customers.search settles: a customer was found, none was
\* found, or the call threw and the inner catch only logs it
SearchSettles(i, res) ==
    /\ reqs[i].pc = "search"
    /\ reqs' = [reqs EXCEPT ![i] =
                  CASE res = "found" -> [reqs[i] EXCEPT !.pc = "portal1"]
                    [] res = "none" -> PortalMethod2(reqs[i], customerMap)
                    [] OTHER -> PortalMethod2([reqs[i] EXCEPT !.err = TRUE], customerMap)]
    /\ UNCHANGED <<proUsers, customerMap, emailConfigured, everPaid>>

\* method 1, stripe.billingPortal.sessions.create settles inside the inner try:
\* {url}, or the inner catch logs the error and method 2 follows
Portal1Settles(i, ok) ==
    /\ reqs[i].pc = "portal1"
    /\ reqs' = [reqs EXCEPT ![i] =
                  IF ok
                  THEN Respond(reqs[i], 200, "url")
                  ELSE PortalMethod2([reqs[i] EXCEPT !.err = TRUE], customerMap)]
    /\ UNCHANGED <<proUsers, customerMap, emailConfigured, everPaid>>

\* method 2, stripe.billingPortal.sessions.create settles: {url} or 500
Portal2Settles(i, ok) ==
    /\ reqs[i].pc = "portal2"
    /\ reqs' = [reqs EXCEPT ![i] =
                  IF ok
                  THEN Respond(reqs[i], 200, "url")
                  ELSE Respond([reqs[i] EXCEPT !.err = TRUE], 500, "error")]
    /\ UNCHANGED <<proUsers, customerMap, emailConfigured, everPaid>>

\* method 3, stripe.customers.list settles: found, none (404), or 500
ListSettles(i, res) ==
    /\ reqs[i].pc = "list"
    /\ reqs' = [reqs EXCEPT ![i] =
                  CASE res = "found" -> [reqs[i] EXCEPT !.pc = "portal3"]
                    [] res = "none" -> Respond(reqs[i], 404, "No active subscription found")
                    [] OTHER -> Respond([reqs[i] EXCEPT !.err = TRUE], 500, "error")]
    /\ UNCHANGED <<proUsers, customerMap, emailConfigured, everPaid>>

\* method 3, stripe.billingPortal.sessions.create settles: {url} or 500
Portal3Settles(i, ok) ==
    /\ reqs[i].pc = "portal3"
    /\ reqs' = [reqs EXCEPT ![i] =
                  IF ok
                  THEN Respond(reqs[i], 200, "url")
                  ELSE Respond([reqs[i] EXCEPT !.err = TRUE], 500, "error")]
    /\ UNCHANGED <<proUsers, customerMap, emailConfigured, everPaid>>

\* GET /check-pro/:userId
CheckPro(i, u) ==
    /\ reqs[i].pc = "idle"
    /\ reqs' = [reqs EXCEPT ![i] =
                  Respond([Idle EXCEPT !.kind = "check", !.userId = u], 200,
                          IF isPro(proUsers, u) THEN "isPro:true" ELSE "isPro:false")]
    /\ UNCHANGED <<proUsers, customerMap, emailConfigured, everPaid>>

\* a webhook that applies the payload before it rejects the signature
WebhookVerifyFailAfterGrant(i, t, u, c) ==
    /\ reqs[i].pc = "idle"
    /\ proUsers' = IF t = Checkout /\ CheckoutActs(u, c)
                   THEN GrantPro(proUsers, u) ELSE proUsers
    /\ reqs' = [reqs EXCEPT ![i] =
                  Respond([Idle EXCEPT !.kind = "webhook"], 400, "Webhook Error")]
    /\ UNCHANGED <<customerMap, emailConfigured, everPaid>>

\* POST /webhook, constructEvent throws: 400 and return
WebhookVerifyFail(i, t, u, c) ==
    /\ reqs[i].pc = "idle"
    /\ reqs' = [reqs EXCEPT ![i] =
                  Respond([Idle EXCEPT !.kind = "webhook"], 400, "Webhook Error")]
    /\ UNCHANGED <<proUsers, customerMap, emailConfigured, everPaid>>

\* POST /webhook, verified checkout.session.completed
WebhookCheckout(i, u, c) ==
    /\ reqs[i].pc = "idle"
    /\ LET r == [Idle EXCEPT !.kind = "webhook", !.evType = Checkout,
                             !.userId = u, !.customerId = c]
       IN IF CheckoutActs(u, c)
          THEN /\ proUsers' = GrantPro(proUsers, u)
               /\ customerMap' = MapSet(customerMap, u, c)
               /\ reqs' = [reqs EXCEPT ![i] = StartNotification(r)]
          ELSE /\ UNCHANGED <<proUsers, customerMap>>
               /\ reqs' = [reqs EXCEPT ![i] = Respond(r, 200, "received:true")]
    /\ everPaid' = IF u # Absent THEN everPaid \cup {u} ELSE everPaid
    /\ UNCHANGED emailConfigured

\* POST /webhook, verified customer.subscription.deleted
WebhookSubDeleted(i, c) ==
    /\ reqs[i].pc = "idle"
    /\ proUsers' = RevokeByCustomer(proUsers, customerMap, c)
    /\ reqs' = [reqs EXCEPT ![i] =
                  Respond([Idle EXCEPT !.kind = "webhook", !.evType = SubDeleted,
                                       !.customerId = c], 200, "received:true")]
    /\ UNCHANGED <<customerMap, emailConfigured, everPaid>>

\* a dispatch whose last branch is an else: any other type downgrades
WebhookOtherFallsThrough(i, u, c) ==
    /\ reqs[i].pc = "idle"
    /\ proUsers' = RevokeByCustomer(proUsers, customerMap, c)
    /\ reqs' = [reqs EXCEPT ![i] =
                  Respond([Idle EXCEPT !.kind = "webhook", !.evType = OtherType],
                          200, "received:true")]
    /\ UNCHANGED <<customerMap, emailConfigured, everPaid>>

\* POST /webhook, verified event of any other type
WebhookOther(i, u, c) ==
    /\ reqs[i].pc = "idle"
    /\ reqs' = [reqs EXCEPT ![i] =
                  Respond([Idle EXCEPT !.kind = "webhook", !.evType = OtherType],
                          200, "received:true")]
    /\ UNCHANGED <<proUsers, customerMap, emailConfigured, everPaid>>

\* a cancel that also forgets the customer of the user
CancelSubscriptionForgetsCustomer(i, u) ==
    /\ reqs[i].pc = "idle"
    /\ proUsers' = CancelPro(proUsers, u)
    /\ customerMap' = SelectSeq(customerMap, LAMBDA e : e[1] # u)
    /\ reqs' = [reqs EXCEPT ![i] =
                  StartNotification([Idle EXCEPT !.kind = "cancel", !.userId = u])]
    /\ UNCHANGED <<emailConfigured, everPaid>>

\* POST /cancel-subscription up to the await of sendNotification
CancelSubscription(i, u) ==
    /\ reqs[i].pc = "idle"
    /\ proUsers' = CancelPro(proUsers, u)
    /\ reqs' = [reqs EXCEPT ![i] =
                  StartNotification([Idle EXCEPT !.kind = "cancel", !.userId = u])]
    /\ UNCHANGED <<customerMap, emailConfigured, everPaid>>

\* resend.emails.send settles: resolved, or rejected and caught
NotificationSettles(i, ok) ==
    /\ reqs[i].pc = "sending"
    /\ reqs' = [reqs EXCEPT ![i].pc = "resume",
                            ![i].notify = IF ok THEN "sent" ELSE "failed"]
    /\ UNCHANGED <<proUsers, customerMap, emailConfigured, everPaid>>

\* a cancel handler that deletes again after the await
ResumeDeleteAndRespond(i) ==
    /\ reqs[i].pc = "resume"
    /\ proUsers' = IF reqs[i].kind = "cancel"
                   THEN CancelPro(proUsers, reqs[i].userId) ELSE proUsers
    /\ reqs' = [reqs EXCEPT ![i] =
                  Respond(reqs[i], 200,
                          IF reqs[i].kind = "webhook" THEN "received:true"
                          ELSE "success:true")]
    /\ UNCHANGED <<customerMap, emailConfigured, everPaid>>

\* a handler that surfaces a failed notification as 500
ResumeAndRespondSurfacesFailure(i) ==
    /\ reqs[i].pc = "resume"
    /\ reqs' = [reqs EXCEPT ![i] =
                  IF reqs[i].notify = "failed"
                  THEN Respond(reqs[i], 500, "error")
                  ELSE Respond(reqs[i], 200,
                               IF reqs[i].kind = "webhook" THEN "received:true"
                               ELSE "success:true")]
    /\ UNCHANGED <<proUsers, customerMap, emailConfigured, everPaid>>

\* the handler resumes after await sendNotification(...) and responds
ResumeAndRespond(i) ==
    /\ reqs[i].pc = "resume"
    /\ reqs' = [reqs EXCEPT ![i] =
                  Respond(reqs[i], 200,
                          IF reqs[i].kind = "webhook" THEN "received:true"
                          ELSE "success:true")]
    /\ UNCHANGED <<proUsers, customerMap, emailConfigured, everPaid>>

\* the connection is closed and its slot is free again
Close(i) ==
    /\ reqs[i].pc = "done"
    /\ reqs' = [reqs EXCEPT ![i] = Idle]
    /\ UNCHANGED <<proUsers, customerMap, emailConfigured, everPaid>>

ProviderResults == {"found", "none", "fail"}

Next ==
    \/ \E i \in Slots : Root(i)
    \/ \E i \in Slots, u \in OptUserIds : CreateCheckout(i, u)
    \/ \E i \in Slots, ok \in BOOLEAN : CheckoutSessionSettles(i, ok)
    \/ \E i \in Slots, u \in OptUserIds : CreatePortalSession(i, u)
    \/ \E i \in Slots, res \in ProviderResults : SearchSettles(i, res)
    \/ \E i \in Slots, ok \in BOOLEAN : Portal1Settles(i, ok)
    \/ \E i \in Slots, ok \in BOOLEAN : Portal2Settles(i, ok)
    \/ \E i \in Slots, res \in ProviderResults : ListSettles(i, res)
    \/ \E i \in Slots, ok \in BOOLEAN : Portal3Settles(i, ok)
    \/ \E i \in Slots, u \in UserIds : CheckPro(i, u)
    \/ \E i \in Slots, t \in EventTypes, u \in OptUserIds, c \in OptCustomerRefs :
          WebhookVerifyFail(i, t, u, c)
    \/ \E i \in Slots, u \in OptUserIds, c \in OptCustomerRefs : WebhookCheckout(i, u, c)
    \/ \E i \in Slots, c \in OptCustomerRefs : WebhookSubDeleted(i, c)
    \/ \E i \in Slots, u \in OptUserIds, c \in OptCustomerRefs : WebhookOther(i, u, c)
    \/ \E i \in Slots, u \in OptUserIds : CancelSubscription(i, u)
    \/ \E i \in Slots, ok \in BOOLEAN : NotificationSettles(i, ok)
    \/ \E i \in Slots : ResumeAndRespond(i)
    \/ \E i \in Slots : Close(i)

Spec == Init /\ [][Next]_vars

\* ------------------------------------------------------------- properties
\* what a step observes of request slot i
Arrives(i) == reqs[i].pc = "idle" /\ reqs'[i].pc # "idle"

ArrivesWebhook(i, t) ==
    /\ Arrives(i)
    /\ reqs'[i].kind = "webhook"
    /\ reqs'[i].evType = t

StoreUnchanged == proUsers' = proUsers /\ customerMap' = customerMap

Acknowledged(r) == r.pc = "done" /\ r.status = 200 /\ r.body = "received:true"

\* C1: a step that processes a verified checkout.session.completed carrying
\* both a userId u and a customer c leaves u in the Pro set (what
\* GET /check-pro/u reports) and c stored as the customer of u, whatever u's
\* record was before.
C1_PaymentGrantsPro ==
    [][\A i \in Slots :
          (ArrivesWebhook(i, Checkout) /\ CheckoutActs(reqs'[i].userId, reqs'[i].customerId))
          => /\ isPro(proUsers', reqs'[i].userId)
             /\ MapGet(customerMap', reqs'[i].userId) = reqs'[i].customerId]_vars

\* C1 witness: a checkout event for a user who already had another customer
\* has been acknowledged, and the user is Pro with the new customer.
C1_Witness ==
    \E i \in Slots :
        /\ reqs[i].kind = "webhook" /\ reqs[i].evType = Checkout
        /\ Acknowledged(reqs[i])
        /\ CheckoutActs(reqs[i].userId, reqs[i].customerId)
        /\ isPro(proUsers, reqs[i].userId)
        /\ MapGet(customerMap, reqs[i].userId) = reqs[i].customerId
        /\ Len(customerMap) = MaxUsers

\* C2: a step that processes a verified customer.subscription.deleted for
\* customer c leaves every user whose stored customer is c (every user whose
\* latest checkout carried c) outside the Pro set.
C2_EndRevokesEveryPayer ==
    [][\A i \in Slots :
          ArrivesWebhook(i, SubDeleted)
          => \A u \in UserIds :
                MapGet(customerMap, u) = reqs'[i].customerId => ~isPro(proUsers', u)]_vars

\* C3: a webhook request answered 400 (signature verification failed) is not
\* acknowledged and leaves the Pro set and the customer map as they were; a
\* failed verification is always answered 400.
C3_VerifyFailIsClosed ==
    [][\A i \in Slots :
          /\ (Arrives(i) /\ reqs'[i].kind = "webhook" /\ reqs'[i].evType = "")
                => reqs'[i].status = 400
          /\ (Arrives(i) /\ reqs'[i].kind = "webhook" /\ reqs'[i].status = 400)
                => /\ StoreUnchanged
                   /\ reqs'[i].pc = "done"
                   /\ reqs'[i].body # "received:true"]_vars

\* C3 witness: a webhook request was rejected with 400 while a user is Pro.
C3_Witness ==
    \E i \in Slots :
        /\ reqs[i].kind = "webhook" /\ reqs[i].status = 400
        /\ proUsers # {}

\* C4: every user in the Pro set was carried by a verified checkout event
\* processed since the process started.
C4_ProOnlyAfterPayment == \A u \in UserIds : isPro(proUsers, u) => u \in everPaid

\* C4 witness: a user who never paid was the subject of a cancel command
\* while another user is Pro, and is not Pro.
C4_Witness ==
    \E i \in Slots, u \in UserIds :
        /\ reqs[i].kind = "cancel" /\ reqs[i].userId = u
        /\ u \notin everPaid
        /\ ~isPro(proUsers, u)
        /\ proUsers # {}

\* C5: the cancel command for user u leaves u outside the Pro set, applying
\* the revocation again changes nothing, the customer map is untouched, and
\* a cancel request that has been answered was answered 200 {success: true}.
C5_CancelRevokesIdempotently ==
    [][\A i \in Slots :
          /\ (Arrives(i) /\ reqs'[i].kind = "cancel" /\ reqs'[i].userId # Absent)
                => /\ ~isPro(proUsers', reqs'[i].userId)
                   /\ CancelPro(proUsers', reqs'[i].userId) = proUsers'
                   /\ proUsers' \subseteq proUsers
                   /\ customerMap' = customerMap
          /\ (reqs'[i].kind = "cancel" /\ reqs'[i].pc = "done")
                => (reqs'[i].status = 200 /\ reqs'[i].body = "success:true")]_vars

\* C5 witness: a cancel for a user who never paid was answered with success.
C5_Witness ==
    \E i \in Slots :
        /\ reqs[i].kind = "cancel" /\ reqs[i].pc = "done"
        /\ reqs[i].userId \in UserIds \ everPaid
        /\ reqs[i].body = "success:true"

\* C6: a verified customer.subscription.deleted whose customer is stored for
\* no user changes neither the Pro set nor the customer map and is
\* acknowledged; a later checkout that introduces that customer still grants.
C6_UnknownCustomerIsNoOp ==
    [][\A i \in Slots :
          /\ (ArrivesWebhook(i, SubDeleted)
                /\ \A u \in UserIds : MapGet(customerMap, u) # reqs'[i].customerId)
                => (StoreUnchanged /\ Acknowledged(reqs'[i]))
          /\ (ArrivesWebhook(i, Checkout)
                /\ CheckoutActs(reqs'[i].userId, reqs'[i].customerId)
                /\ \A u \in UserIds : MapGet(customerMap, u) # reqs'[i].customerId)
                => isPro(proUsers', reqs'[i].userId)]_vars

\* C6 witness: an acknowledged subscription-deleted event for a customer that
\* no user has stored, while some user is Pro with another customer.
C6_Witness ==
    \E i \in Slots :
        /\ reqs[i].kind = "webhook" /\ reqs[i].evType = SubDeleted
        /\ Acknowledged(reqs[i])
        /\ reqs[i].customerId \in CustomerRefs
        /\ \A u \in UserIds : MapGet(customerMap, u) # reqs[i].customerId
        /\ proUsers # {}

\* C7: a verified checkout event that carries a userId but no customer makes
\* that user Pro and leaves the customer map as it was.
C7_PaymentWithoutCustomerGrants ==
    [][\A i \in Slots :
          (ArrivesWebhook(i, Checkout)
             /\ reqs'[i].userId # Absent /\ reqs'[i].customerId = Absent)
          => (isPro(proUsers', reqs'[i].userId) /\ customerMap' = customerMap)]_vars

\* C8: a verified checkout event without a userId changes neither the Pro set
\* nor the customer map and is acknowledged with 200 {received: true}.
C8_PaymentWithoutUserDropped ==
    [][\A i \in Slots :
          (ArrivesWebhook(i, Checkout) /\ reqs'[i].userId = Absent)
          => (StoreUnchanged /\ Acknowledged(reqs'[i]))]_vars

\* C8 witness: an acknowledged checkout event that carried a customer but no
\* userId.
C8_Witness ==
    \E i \in Slots :
        /\ reqs[i].kind = "webhook" /\ reqs[i].evType = Checkout
        /\ reqs[i].userId = Absent /\ reqs[i].customerId # Absent
        /\ Acknowledged(reqs[i])
        /\ customerMap # << >>

\* C9: a verified event of any other type is acknowledged at once, changes
\* neither the Pro set nor the customer map and starts no notification.
C9_OtherEventsIgnored ==
    [][\A i \in Slots :
          ArrivesWebhook(i, OtherType)
          => /\ StoreUnchanged
             /\ Acknowledged(reqs'[i])
             /\ reqs'[i].notify = "none"]_vars

\* C9 witness: an acknowledged event of another type while a user is Pro and
\* email is configured.
C9_Witness ==
    \E i \in Slots :
        /\ reqs[i].kind = "webhook" /\ reqs[i].evType = OtherType
        /\ Acknowledged(reqs[i])
        /\ proUsers # {}
        /\ emailConfigured

\* the entitlement record of user u
Record(pro, m, u) == <<isPro(pro, u), MapGet(m, u)>>

\* C10: with grants and cancels for one user in flight together, the store
\* changes only in the synchronous first segment of a handler, and each step
\* takes every user's record to itself, to the full grant image (Pro with the
\* customer of that grant) or to the cancel image (not Pro, customer kept);
\* no step leaves a user Pro without a customer, and a check-pro read that
\* answers true sees the customer.
C10_GrantAndCancelAreAtomic ==
    [][/\ ~StoreUnchanged => \E i \in Slots : Arrives(i)
       /\ \A u \in UserIds :
            LET old == Record(proUsers, customerMap, u)
                new == Record(proUsers', customerMap', u)
            IN \/ new = old
               \/ new = <<FALSE, old[2]>>
               \/ \E i \in Slots :
                     /\ ArrivesWebhook(i, Checkout)
                     /\ reqs'[i].userId = u
                     /\ new = <<TRUE, reqs'[i].customerId>>
                     /\ new[2] # Absent
       /\ \A u \in UserIds : isPro(proUsers', u) => MapGet(customerMap', u) # Absent
       /\ \A i \in Slots :
            (reqs'[i].kind = "check" /\ reqs'[i].body = "isPro:true")
               => MapGet(customerMap', reqs'[i].userId) # Absent]_vars

\* C10 witness: a grant and a cancel for the same user are both suspended at
\* their await of sendNotification.
C10_Witness ==
    \E i, j \in Slots :
        /\ reqs[i].kind = "webhook" /\ reqs[i].evType = Checkout
        /\ reqs[j].kind = "cancel"
        /\ reqs[i].userId = reqs[j].userId
        /\ reqs[i].userId # Absent
        /\ reqs[i].pc \in {"sending", "resume"}
        /\ reqs[j].pc \in {"sending", "resume"}

\* C11: a verified checkout webhook is acknowledged without waiting for the
\* notification: whenever its resend.emails.send call is still outstanding,
\* {received: true} has already been sent, so a call that never completes
\* cannot hold the acknowledgement back.
C11_AckDoesNotWaitForNotification ==
    \A i \in Slots :
        (reqs[i].kind = "webhook" /\ reqs[i].notify = "sending")
            => (reqs[i].status = 200 /\ reqs[i].body = "received:true")

\* C12: a create-checkout or create-portal-session request during which a
\* provider call failed is answered 500, never 404 and never with a url.
C12_ProviderFailureIs500 ==
    \A i \in Slots :
        (reqs[i].kind \in {"portal", "create-checkout"} /\ reqs[i].pc = "done"
            /\ reqs[i].err)
        => reqs[i].status = 500

\* C13: a portal request is answered 404 exactly out of the email list
\* lookup finding nothing, which is reached only when the in-memory map has
\* no customer for the user; with no failed call that outcome is 404; with a
\* stored customer the handler asks the portal provider for that customer and
\* answers with the url, or with 500 when that call fails.
C13_PortalResolution ==
    [][\A i \in Slots :
          reqs'[i].kind = "portal" =>
            /\ (reqs[i].pc = "list" /\ reqs'[i].pc = "done" /\ ~reqs'[i].err)
                  => reqs'[i].status = 404
            /\ (reqs'[i].status = 404 /\ reqs[i].status # 404) => reqs[i].pc = "list"
            /\ (reqs'[i].pc = "list" /\ reqs[i].pc # "list")
                  => MapGet(customerMap, reqs'[i].userId) = Absent
            /\ (reqs[i].pc = "portal2" /\ reqs'[i].pc = "done")
                  => \/ reqs'[i].status = 200 /\ reqs'[i].body = "url"
                     \/ reqs'[i].status = 500 /\ reqs'[i].err]_vars

\* C13 witness: a portal request whose provider search failed was answered
\* with a url for a user whose customer is in the in-memory map.
C13_Witness ==
    \E i \in Slots :
        /\ reqs[i].kind = "portal" /\ reqs[i].pc = "done"
        /\ reqs[i].status = 200 /\ reqs[i].body = "url"
        /\ reqs[i].err
        /\ MapGet(customerMap, reqs[i].userId) # Absent

\* C14: a create-checkout, create-portal-session or cancel-subscription
\* request without a userId is answered 400 at once (no provider or
\* notification call is started) and leaves the store unchanged.
C14_MissingUserIdIs400 ==
    [][\A i \in Slots :
          (Arrives(i) /\ reqs'[i].kind \in {"create-checkout", "portal", "cancel"}
             /\ reqs'[i].userId = Absent)
          => /\ reqs'[i].pc = "done"
             /\ reqs'[i].status = 400
             /\ StoreUnchanged]_vars

\* C15: no step removes a userId from the customer map; a cancel command and
\* a subscription-deleted event leave the map exactly as it was; a checkout
\* event for a user who is stored but no longer Pro makes the user Pro again.
C15_RevocationKeepsCustomer ==
    [][/\ MapKeys(customerMap) \subseteq MapKeys(customerMap')
       /\ \A i \in Slots :
            /\ (Arrives(i) /\ reqs'[i].kind = "cancel") => customerMap' = customerMap
            /\ ArrivesWebhook(i, SubDeleted) => customerMap' = customerMap
            /\ (ArrivesWebhook(i, Checkout)
                  /\ CheckoutActs(reqs'[i].userId, reqs'[i].customerId)
                  /\ MapHas(customerMap, reqs'[i].userId)
                  /\ ~isPro(proUsers, reqs'[i].userId))
                  => isPro(proUsers', reqs'[i].userId)]_vars

\* C15 witness: a user cancelled by a request still being served is Pro again
\* and has a stored customer.
C15_Witness ==
    \E i \in Slots :
        /\ reqs[i].kind = "cancel" /\ reqs[i].userId # Absent
        /\ isPro(proUsers, reqs[i].userId)
        /\ MapGet(customerMap, reqs[i].userId) # Absent

\* C16: the settling of the notification call, whether it succeeds or throws,
\* changes nothing in the store, and the response given after the
\* notification is 200 with the body of the handler ({received: true} for the
\* webhook, {success: true} for cancel) whether the notification was sent,
\* failed or was skipped.
C16_NotificationOutcomeIrrelevant ==
    [][\A i \in Slots :
          /\ (reqs[i].pc = "sending" /\ reqs'[i].pc # "sending")
                => (StoreUnchanged /\ reqs'[i].pc = "resume")
          /\ (reqs[i].pc = "resume" /\ reqs'[i].pc # "resume")
                => /\ StoreUnchanged
                   /\ reqs'[i].pc = "done"
                   /\ reqs'[i].status = 200
                   /\ reqs'[i].body = IF reqs[i].kind = "webhook"
                                      THEN "received:true" ELSE "success:true"]_vars

\* C16 witness: a cancel whose notification failed was answered with success
\* while a webhook grant whose notification was sent was acknowledged.
C16_Witness ==
    \E i, j \in Slots :
        /\ reqs[i].kind = "cancel" /\ reqs[i].notify = "failed"
        /\ reqs[i].status = 200 /\ reqs[i].body = "success:true"
        /\ reqs[j].kind = "webhook" /\ reqs[j].notify = "sent"
        /\ Acknowledged(reqs[j])

\* C17: a subscription-deleted event for customer c takes out of the Pro set
\* only a user whose stored customer is c at that moment, so a user whose
\* customer was overwritten by a later checkout is not revoked by the old one.
C17_RevokeMatchesStoredCustomer ==
    [][\A i \in Slots :
          ArrivesWebhook(i, SubDeleted)
          => \A u \in proUsers \ proUsers' :
                MapGet(customerMap, u) = reqs'[i].customerId]_vars

\* C17 witness: a subscription-deleted event for c was acknowledged, the user
\* stored with c is not Pro and a user stored with another customer is Pro.
C17_Witness ==
    \E i \in Slots, u, v \in UserIds :
        /\ reqs[i].kind = "webhook" /\ reqs[i].evType = SubDeleted
        /\ Acknowledged(reqs[i])
        /\ reqs[i].customerId # Absent
        /\ MapGet(customerMap, u) = reqs[i].customerId /\ ~isPro(proUsers, u)
        /\ MapGet(customerMap, v) \notin {Absent, reqs[i].customerId}
        /\ isPro(proUsers, v)

\* C18: the Pro set or the customer map changes only in the step that takes in
\* a verified checkout or subscription-deleted webhook or a cancel command;
\* every step of GET /, check-pro, create-checkout and create-portal-session
\* leaves both unchanged.
C18_OnlyWebhookAndCancelWrite ==
    [][/\ ~StoreUnchanged
            => \E i \in Slots :
                  /\ Arrives(i)
                  /\ \/ reqs'[i].kind = "cancel"
                     \/ /\ reqs'[i].kind = "webhook"
                        /\ reqs'[i].evType \in {Checkout, SubDeleted}
       /\ \A i \in Slots :
            (reqs'[i] # reqs[i]
               /\ reqs'[i].kind \in {"root", "check", "create-checkout", "portal"})
            => StoreUnchanged]_vars

\* C18 witness: with a Pro user in the store, a portal request was answered
\* with a url and a create-checkout request failed with 500.
C18_Witness ==
    \E i, j \in Slots :
        /\ reqs[i].kind = "portal" /\ reqs[i].status = 200
        /\ reqs[j].kind = "create-checkout" /\ reqs[j].status = 500
        /\ proUsers # {}

\* C19: a subscription-deleted event for customer c takes at most one user
\* out of the Pro set and adds none; the user taken out has the earliest map
\* entry whose customer is c, and every other user keeps their status.
C19_RevokesAtMostFirstMatch ==
    [][\A i \in Slots :
          ArrivesWebhook(i, SubDeleted)
          => /\ proUsers' \subseteq proUsers
             /\ Cardinality(proUsers \ proUsers') <= 1
             /\ \A u \in proUsers \ proUsers' :
                  \A k \in 1..Len(customerMap) :
                     customerMap[k][1] = u
                        => \A j \in 1..(k - 1) :
                              customerMap[j][2] # reqs'[i].customerId]_vars

\* C19 witness: after a subscription-deleted event for c, two users are stored
\* with c; the one inserted first is not Pro and the other still is.
C19_Witness ==
    \E i \in Slots :
        /\ reqs[i].kind = "webhook" /\ reqs[i].evType = SubDeleted
        /\ Acknowledged(reqs[i])
        /\ Len(customerMap) >= 2
        /\ customerMap[1][2] = reqs[i].customerId
        /\ customerMap[2][2] = reqs[i].customerId
        /\ ~isPro(proUsers, customerMap[1][1])
        /\ isPro(proUsers, customerMap[2][1])

\* C20: every user in the Pro set has a customer in the customer map.
C20_ProHasCustomer ==
    \A u \in proUsers :
        MapHas(customerMap, u) /\ MapGet(customerMap, u) # Absent

\* C20 witness: one user is Pro and another, stored with a customer, is not.
C20_Witness ==
    \E u, v \in UserIds :
        /\ isPro(proUsers, u)
        /\ ~isPro(proUsers, v)
        /\ MapGet(customerMap, v) # Absent

====
